---------------------------- MODULE Spec2Model ----------------------------
(***************************************************************************)
(* A model of pyslackrandomcoffee (src/src/pyslackrandomcoffee.py): the    *)
(* bot that lists the members of a Slack channel, re-reads its own earlier *)
(* announcements to learn who already met, pairs the members up and posts  *)
(* the new announcement.                                                   *)
(*                                                                         *)
(* Python values are represented as follows.                               *)
(*   str            a sequence of characters: an ASCII character is the    *)
(*                  one-character string that holds it, any other          *)
(*                  character is the string "U+" and the four hexadecimal  *)
(*                  digits of its code point ("U+00E9", "U+2003")          *)
(*   list, tuple    a sequence                                             *)
(*   Optional[x]    <<>> for None and <<x>> for a value x (None, Some)     *)
(*   dict           a function; the empty dict is the function with the    *)
(*                  empty domain, a dict with str keys is a record         *)
(* Three specifications share the definitions:                             *)
(*   Spec      one run of pyslackrandomcoffee()                            *)
(*   SpecGen   one call of generate_pairs() on an arbitrary member list    *)
(*             and history                                                 *)
(*   SpecText  format_message_from_list_of_pairs() and the text handling   *)
(*             of get_previous_pairs() on message texts                    *)
(***************************************************************************)
EXTENDS Integers, Sequences, FiniteSets, TLC

VARIABLES
    testing,                  \* the testing flag of the run
    pc,                       \* the statement the run is at
    error,                    \* the exception that ended the run, or "none"
    members_none,             \* TRUE when the Python variable members is None
    members,                  \* the member list object (mutated in place)
    input,                    \* the member list as it was handed to generate_pairs
    members_failed,           \* get_members_list caught a SlackApiError
    conversation_history,     \* the messages the history listing gave
    history_failed,           \* get_previous_pairs caught a SlackApiError
    previous_pairs,           \* Optional[list of list of pairs]
    members_previous_matches, \* dict: member -> set of earlier partners
    first_member,             \* Optional[member]: the floating member
    pairs,                    \* the batch being built
    message,                  \* Optional[str]: the formatted announcement
    posted,                   \* number of calls of chat_postMessage
    response,                 \* what chat_postMessage did: "none" before the call
    post_result,              \* Optional[bool]: what post_to_slack_channel_message returned
    log,                      \* the steps of the run, in the order they started
    batch                     \* SpecText: the batch handed to the formatter

vars == <<testing, pc, error, members_none, members, input, members_failed,
          conversation_history, history_failed, previous_pairs,
          members_previous_matches, first_member, pairs, message, posted,
          response, post_result, log, batch>>

-----------------------------------------------------------------------------
(* Python values *)

None == <<>>
Some(x) == <<x>>
Range(s) == {s[i] : i \in DOMAIN s}
SeqsUpTo(S, n) == UNION {[1..k -> S] : k \in 0..n}

-----------------------------------------------------------------------------
(* str methods *)

\* The 29 characters str.strip() takes off: those for which str.isspace()
\* holds.  Line 1: space, \t, \n, \r, \f.  Line 2: U+000B, U+001C, U+001D,
\* U+001E, U+001F, as the characters themselves.  Then those outside ASCII.
Whitespace ==
    {" ", "\t", "\n", "\r", "\f",
     "", "", "", "", "",
     "U+0085", "U+00A0", "U+1680", "U+2000", "U+2001", "U+2002",
     "U+2003", "U+2004", "U+2005", "U+2006", "U+2007", "U+2008",
     "U+2009", "U+200A", "U+2028", "U+2029", "U+202F", "U+205F",
     "U+3000"}

\* sub in s
Contains(s, sub) ==
    \E i \in 1..(Len(s) - Len(sub) + 1) : SubSeq(s, i, i + Len(sub) - 1) = sub

\* s.find(sub) + 1, for a sub that occurs in s
Find(s, sub) ==
    LET at == {i \in 1..(Len(s) - Len(sub) + 1) : SubSeq(s, i, i + Len(sub) - 1) = sub}
    IN  CHOOSE i \in at : \A j \in at : i <= j

\* s.split(sep): cut at every occurrence of sep, found left to right
RECURSIVE Split(_, _)
Split(s, sep) ==
    IF ~Contains(s, sep)
    THEN <<s>>
    ELSE LET i == Find(s, sep)
         IN  <<SubSeq(s, 1, i - 1)>> \o Split(SubSeq(s, i + Len(sep), Len(s)), sep)

\* s.strip(chars): the characters of chars taken off both ends
StripChars(s, chars) ==
    LET keep == {i \in 1..Len(s) : s[i] \notin chars}
    IN  IF keep = {}
        THEN <<>>
        ELSE SubSeq(s, CHOOSE i \in keep : \A j \in keep : i <= j,
                       CHOOSE i \in keep : \A j \in keep : i >= j)

\* s.strip()
Strip(s) == StripChars(s, Whitespace)

\* ''.join(parts)
RECURSIVE Join(_)
Join(parts) == IF parts = <<>> THEN <<>> ELSE Head(parts) \o Join(Tail(parts))

Digits == <<"0", "1", "2", "3", "4", "5", "6", "7", "8", "9">>

\* str(n) for n >= 0, as an f-string renders an int
RECURSIVE Str(_)
Str(n) == IF n < 10 THEN <<Digits[n + 1]>> ELSE Str(n \div 10) \o <<Digits[(n % 10) + 1]>>

-----------------------------------------------------------------------------
(* Module constants *)

CHANNEL == <<"#", "r", "a", "n", "d", "o", "m", "c", "o", "f", "f", "e", "e", "s">>
CHANNEL_TESTING == <<"#", "b", "o", "t", "_", "t", "e", "s", "t", "i", "n", "g">>
LOOKBACK_DAYS == 28

MAGICAL_TEXT ==
    <<"T","h","i","s"," ","w","e","e","k","s"," ","r","a","n","d","o","m"," ","c","o","f","f",
      "e","e","s"," ","a","r","e">>

\* the text of m2 before and after {LOOKBACK_DAYS}
FooterHead ==
    <<"A","n"," ","u","n","e","v","e","n"," ","n","u","m","b","e","r"," ","o","f"," ","m","e",
      "m","b","e","r","s"," ","r","e","s","u","l","t","s"," ","i","n"," ","o","n","e"," ","p",
      "e","r","s","o","n"," ","g","e","t","t","i","n","g"," ","t","w","o"," ","c","o","f","f",
      "e","e"," ","m","a","t","c","h","e","s","."," ","M","a","t","c","h","e","s"," ","f","r",
      "o","m"," ","t","h","e"," ","l","a","s","t"," ">>

FooterTail ==
    <<" ","d","a","y","s"," ","c","o","n","s","i","d","e","r","e","d"," ","t","o"," ","a","v",
      "o","i","d"," ","m","a","t","c","h","i","n","g"," ","t","h","e"," ","s","a","m","e"," ",
      "m","e","m","b","e","r","s"," ","s","e","v","e","r","a","l"," ","t","i","m","e","s"," ",
      "i","n"," ","t","h","e"," ","t","i","m","e"," ","p","e","r","i","o","d",".">>

-----------------------------------------------------------------------------
(* format_message_from_list_of_pairs *)

\* f' {i+1}. {p1} and {p2}\n' for the pair at 0-based index i = n - 1
PairString(n, p) ==
    <<" ">> \o Str(n) \o <<".", " ">> \o p[1] \o <<" ", "a", "n", "d", " ">> \o p[2] \o <<"\n">>

\* (a variant that renders an empty batch too)
FormatAlways(ps) ==
    Some(MAGICAL_TEXT \o <<":", "\n">>
         \o Join([i \in 1..Len(ps) |-> PairString(i, ps[i])])
         \o FooterHead \o Str(LOOKBACK_DAYS) \o FooterTail)

\* Optional[str]: None for an empty batch
format_message_from_list_of_pairs(ps) ==
    IF Len(ps) > 0
    THEN LET m1 == MAGICAL_TEXT \o <<":", "\n">>
             pair_strings == Join([i \in 1..Len(ps) |-> PairString(i, ps[i])])
             m2 == FooterHead \o Str(LOOKBACK_DAYS) \o FooterTail
         IN  Some(m1 \o pair_strings \o m2)
    ELSE None

-----------------------------------------------------------------------------
(* get_previous_pairs: the filter and the extraction *)

\* '@' in testing, '<@U' otherwise
MentionToken(t) == IF t THEN <<"@">> ELSE <<"<", "@", "U">>

\* t['text'] raises KeyError for a message t that has no 'text'
FilterRaises(history) == \E i \in DOMAIN history : "text" \notin DOMAIN history[i]

\* the texts of the messages kept by the filter
FilterTexts(history, t) ==
    LET kept == SelectSeq(history, LAMBDA m : /\ Contains(m.text, MAGICAL_TEXT)
                                              /\ Contains(m.text, MentionToken(t)))
    IN  [i \in DOMAIN kept |-> kept[i].text]

\* t.split('\n')[1:-1]
PairLines(text) ==
    LET lines == Split(text, <<"\n">>) IN SubSeq(lines, 2, Len(lines) - 1)

\* e.split('. ')[1] raises IndexError when e holds no '. ';
\* .split('and')[1] raises IndexError when that part holds no 'and'
LineRaises(e) ==
    LET parts == Split(e, <<".", " ">>)
    IN  \/ Len(parts) < 2
        \/ Len(Split(parts[2], <<"a", "n", "d">>)) < 2

\* (e.split('. ')[1].split('and')[0].strip(), e.split('. ')[1].split('and')[1].strip())
LinePair(e) ==
    LET ab == Split(Split(e, <<".", " ">>)[2], <<"a", "n", "d">>)
    IN  <<Strip(ab[1]), Strip(ab[2])>>

\* the two list comprehensions: one batch per kept text
TextRaises(text) == LET lines == PairLines(text) IN \E i \in DOMAIN lines : LineRaises(lines[i])
TextBatch(text) == LET lines == PairLines(text) IN [i \in DOMAIN lines |-> LinePair(lines[i])]

\* What get_previous_pairs does with the listed messages: the exception it raises
\* ("none" when it returns) and the value it returns.
ExtractPairs(history, t) ==
    IF FilterRaises(history)
    THEN [error |-> "KeyError", value |-> None]
    ELSE LET texts == FilterTexts(history, t)
         IN  IF Len(texts) = 0
             THEN [error |-> "none", value |-> None]
             ELSE IF \E i \in DOMAIN texts : TextRaises(texts[i])
             THEN [error |-> "IndexError", value |-> None]
             ELSE [error |-> "none",
                   value |-> Some([i \in DOMAIN texts |-> TextBatch(texts[i])])]

-----------------------------------------------------------------------------
(* generate_pairs *)

\* list(set(matches)) for one member: the other side of every earlier pair
\* that names the member
PreviousMatches(member, history) ==
    {x \in UNION {UNION {Range(history[b][k]) : k \in DOMAIN history[b]} : b \in DOMAIN history} :
        \E b \in DOMAIN history : \E k \in DOMAIN history[b] :
            LET p1 == history[b][k][1]
                p2 == history[b][k][2]
            IN  \/ p1 = member /\ x = p2
                \/ p1 # member /\ p2 = member /\ x = p1}

\* the dict built when members and previous_pairs are both truthy, else {}
MatchesDict(ms, pp) ==
    IF Len(ms) > 0 /\ pp # None /\ Len(pp[1]) > 0
    THEN [m \in Range(ms) |-> PreviousMatches(m, pp[1])]
    ELSE <<>>

\* (a variant that forgets the earlier matches)
Member2CandidatesAll(member1, ms, mpm) == ms

\* member2_candidates
Member2Candidates(member1, ms, mpm) == SelectSeq(ms, LAMBDA m : m \notin mpm[member1])

\* (a variant without the except branch)
FallbackPoolNone(cs, ms) == cs

\* the population the sample is finally drawn from when the candidates are cs:
\* the except branch falls back to all of members
FallbackPool(cs, ms) == IF Len(cs) > 0 THEN cs ELSE ms

\* the population member2 is drawn from
SamplePool(member1, ms, mpm) ==
    IF DOMAIN mpm # {}
    THEN FallbackPool(Member2Candidates(member1, ms, mpm), ms)
    ELSE ms

\* the exception pair_excluding_historic_matches raises, or "none": the key
\* member1 is looked up once for each element of members, so an empty list
\* looks nothing up and the sample of the empty list raises
PairRaises(member1, ms, mpm) ==
    IF DOMAIN mpm # {} /\ Len(ms) > 0 /\ member1 \notin DOMAIN mpm THEN "KeyError"
    ELSE IF Len(SamplePool(member1, ms, mpm)) = 0 THEN "ValueError"
    ELSE "none"

\* (a variant that drops every element equal to x)
ListRemoveAll(ms, x) == SelectSeq(ms, LAMBDA m : m # x)

\* members.remove(x): drops the first element equal to x
ListRemove(ms, x) ==
    LET i == CHOOSE k \in DOMAIN ms : ms[k] = x /\ \A j \in 1..(k - 1) : ms[j] # x
    IN  SubSeq(ms, 1, i - 1) \o SubSeq(ms, i + 1, Len(ms))

\* (a variant that drops two elements)
PopRestTwo(ms) == SubSeq(ms, 1, Len(ms) - 2)

\* what members.pop() leaves in the list
PopRest(ms) == SubSeq(ms, 1, Len(ms) - 1)

\* (a variant that stops with one member left)
LoopContinuesTwo(ms) == Len(ms) >= 2

\* while len(members)
LoopContinues(ms) == Len(ms) > 0

\* (a variant that pairs the member left with itself)
LastMember1Self(first, ms) == ms[1]

\* the first side of the pair made when a single member is left
LastMember1(first, ms) == first

\* random.shuffle(members): every arrangement of the list
Shuffles(ms) == {[i \in DOMAIN ms |-> ms[p[i]]] : p \in Permutations(DOMAIN ms)}

\* generate_pairs up to the loop: shuffle, the dict of earlier matches, first_member
GenStart ==
    /\ pc = "generate"
    /\ log' = Append(log, "generate")
    /\ input' = members
    /\ IF members_none
       THEN \* random.shuffle(None)
            /\ pc' = "raised"
            /\ error' = "TypeError"
            /\ UNCHANGED <<members, members_previous_matches, first_member, pairs>>
       ELSE \E sh \in Shuffles(members) :
            /\ members' = sh
            /\ members_previous_matches' = MatchesDict(sh, previous_pairs)
            /\ pairs' = <<>>
            /\ first_member' = IF Len(sh) > 0 THEN Some(sh[Len(sh)]) ELSE None
            /\ pc' = IF Len(sh) > 0 /\ LoopContinues(sh) THEN "loop" ELSE "format"
            /\ error' = error
    /\ UNCHANGED <<testing, members_none, members_failed, conversation_history,
                   history_failed, previous_pairs, message, posted, response,
                   post_result, batch>>

\* one iteration of the while loop
GenStep ==
    /\ pc = "loop"
    /\ LET two == Len(members) >= 2
           member1 == IF two THEN members[Len(members)] ELSE LastMember1(first_member[1], members)
           rest == IF two THEN PopRest(members) ELSE members
           raises == PairRaises(member1, rest, members_previous_matches)
       IN  IF raises # "none"
           THEN /\ pc' = "raised"
                /\ error' = raises
                /\ members' = rest
                /\ pairs' = pairs
           ELSE \E member2 \in Range(SamplePool(member1, rest, members_previous_matches)) :
                /\ members' = ListRemove(rest, member2)
                /\ pairs' = Append(pairs, <<member1, member2>>)
                /\ pc' = IF LoopContinues(members') THEN "loop" ELSE "format"
                /\ error' = error
    /\ UNCHANGED <<testing, members_none, input, members_failed, conversation_history,
                   history_failed, previous_pairs, members_previous_matches, first_member,
                   message, posted, response, post_result, log, batch>>

-----------------------------------------------------------------------------
(* The Slack workspace the run talks to *)

\* client.users_list()['members']: four people and a bot
USERS_LIST ==
    <<[id |-> <<"U", "1">>, name |-> <<"a", "n", "d", "y">>, is_bot |-> FALSE],
      [id |-> <<"U", "2">>, name |-> <<"b", "o", "b">>, is_bot |-> FALSE],
      [id |-> <<"U", "3">>, name |-> <<"e", "v", "e">>, is_bot |-> FALSE],
      [id |-> <<"U", "4">>, name |-> <<"c", "o", "f", "f", "e", "e">>, is_bot |-> TRUE],
      [id |-> <<"U", "5">>, name |-> <<"a", "l">>, is_bot |-> FALSE]>>

UserIds == {USERS_LIST[i].id : i \in DOMAIN USERS_LIST}

\* f'@{u["name"]}' in testing, f'<@{u["id"]}>' otherwise
Render(u, t) == IF t THEN <<"@">> \o u.name ELSE <<"<", "@">> \o u.id \o <<">">>

\* the list get_members_list returns for the channel members member_ids
MembersOf(member_ids, t) ==
    LET kept == SelectSeq(USERS_LIST, LAMBDA u : u.id \in member_ids /\ ~u.is_bot)
    IN  [i \in DOMAIN kept |-> Render(kept[i], t)]

\* the identifiers of all people, as the run renders them
Identifiers(t) == Range(MembersOf(UserIds, t))

\* the channels client.conversations_list() may name
CHANNELS_LIST ==
    <<[id |-> <<"C", "1">>,
       name |-> <<"r", "a", "n", "d", "o", "m", "c", "o", "f", "f", "e", "e", "s">>],
      [id |-> <<"C", "2">>, name |-> <<"g", "e", "n", "e", "r", "a", "l">>],
      [id |-> <<"C", "3">>, name |-> <<"b", "o", "t", "_", "t", "e", "s", "t", "i", "n", "g">>]>>

\* what client.conversations_list() does: it raises SlackApiError (None) or
\* gives some of the channels, in the order of CHANNELS_LIST
ChannelListings ==
    {None} \cup {Some(SelectSeq(CHANNELS_LIST, LAMBDA c : c.id \in ids)) :
                    ids \in SUBSET {CHANNELS_LIST[i].id : i \in DOMAIN CHANNELS_LIST}}

\* get_channel_id(channel) on a listing: the exception it raises ("none" when
\* it returns) and the value it returns.  A SlackApiError of the listing gives
\* None; the id of the last channel that bears the name is returned; with no
\* such channel channel_id is read before it was ever assigned.
get_channel_id(channel, listing) ==
    IF listing = None
    THEN [error |-> "none", value |-> None]
    ELSE LET channel_list == listing[1]
             hits == {i \in DOMAIN channel_list :
                         channel_list[i].name = StripChars(channel, {"#"})}
         IN  IF hits = {}
             THEN [error |-> "UnboundLocalError", value |-> None]
             ELSE [error |-> "none",
                   value |-> Some(channel_list[CHOOSE i \in hits : \A j \in hits : i >= j].id)]

-----------------------------------------------------------------------------
(* pyslackrandomcoffee: the steps around generate_pairs *)

\* channel = CHANNEL if testing is False else CHANNEL_TESTING
Channel(t) == IF t = FALSE THEN CHANNEL ELSE CHANNEL_TESTING

\* get_members_list: the exception of get_channel_id leaves the function and
\* the run; else the list of the channel's people, or None when
\* conversations_members or users_list raised SlackApiError
GetMembersList ==
    /\ pc = "members"
    /\ log' = Append(log, "members")
    /\ \E c \in {get_channel_id(Channel(testing), listing) : listing \in ChannelListings} :
          IF c.error # "none"
          THEN /\ pc' = "raised"
               /\ error' = c.error
               /\ UNCHANGED <<members_failed, members_none, members>>
          ELSE \* conversations_members(channel=c.value) and users_list()
               /\ \E failed \in BOOLEAN : \E member_ids \in SUBSET UserIds :
                     /\ members_failed' = failed
                     /\ members_none' = failed
                     /\ members' = IF failed THEN <<>> ELSE MembersOf(member_ids, testing)
               /\ pc' = "history"
               /\ error' = error
    /\ UNCHANGED <<testing, input, conversation_history, history_failed,
                   previous_pairs, members_previous_matches, first_member, pairs,
                   message, posted, response, post_result, batch>>

MaxMessages == 1

\* an announcement of the bot, as it was posted
Announcement(ps) == format_message_from_list_of_pairs(ps)[1]

\* a message of a person that quotes the marker phrase and mentions somebody
Lookalike(t) ==
    MAGICAL_TEXT \o <<"?", "\n">> \o Render(USERS_LIST[2], t)
        \o <<" ", "i", "s", " ", "o", "u", "t", "\n", "o", "k">>

\* the texts the channel may hold: earlier announcements of one pair or of
\* two, a message of a person that looks like one, and chatter
RecentTexts(t) ==
    {Announcement(<<<<a, b>>>>) : a, b \in Identifiers(t)}
    \cup {Announcement(<<<<Render(USERS_LIST[2], t), Render(USERS_LIST[3], t)>>,
                         <<Render(USERS_LIST[5], t), Render(USERS_LIST[2], t)>>>>)}
    \cup {Lookalike(t), <<"h", "i">>}

\* response["messages"]: dicts with a 'text', and one that has none
RecentMessages(t) ==
    {[text |-> x] : x \in RecentTexts(t)} \cup {[subtype |-> <<"f", "i", "l", "e">>]}

\* get_previous_pairs: the exception of get_channel_id leaves the function and
\* the run; else the listing (which may stop at a SlackApiError, keeping the
\* pages read before it), the filter and the extraction
GetPreviousPairs ==
    /\ pc = "history"
    /\ log' = Append(log, "history")
    /\ \E c \in {get_channel_id(Channel(testing), listing) : listing \in ChannelListings} :
          IF c.error # "none"
          THEN /\ pc' = "raised"
               /\ error' = c.error
               /\ UNCHANGED <<history_failed, conversation_history, previous_pairs>>
          ELSE \* conversations_history(channel=c.value, ...)
               /\ \E msgs \in SeqsUpTo(RecentMessages(testing), MaxMessages) :
                     LET r == ExtractPairs(msgs, testing)
                     IN  /\ history_failed' \in BOOLEAN
                         /\ conversation_history' = msgs
                         /\ previous_pairs' = r.value
                         /\ error' = r.error
                         /\ pc' = IF r.error = "none" THEN "generate" ELSE "raised"
    /\ UNCHANGED <<testing, members_none, members, input, members_failed,
                   members_previous_matches, first_member, pairs, message, posted,
                   response, post_result, batch>>

\* message = format_message_from_list_of_pairs(pairs); if message: ...
FormatMessage ==
    /\ pc = "format"
    /\ log' = Append(log, "format")
    /\ message' = format_message_from_list_of_pairs(pairs)
    /\ pc' = IF message' # None /\ Len(message'[1]) > 0 THEN "post" ELSE "done"
    /\ UNCHANGED <<testing, error, members_none, members, input, members_failed,
                   conversation_history, history_failed, previous_pairs,
                   members_previous_matches, first_member, pairs, posted, response,
                   post_result, batch>>

\* what post_to_slack_channel_message returns when chat_postMessage answers
\* ok, answers not ok, or raises SlackApiError
PostResult(r) == r = "ok"

\* post_to_slack_channel_message(message, channel)
PostMessage ==
    /\ pc = "post"
    /\ log' = Append(log, "post")
    /\ posted' = posted + 1
    /\ \E r \in {"ok", "not_ok", "SlackApiError"} :
          /\ response' = r
          /\ post_result' = Some(PostResult(r))
    /\ pc' = "done"
    /\ UNCHANGED <<testing, error, members_none, members, input, members_failed,
                   conversation_history, history_failed, previous_pairs,
                   members_previous_matches, first_member, pairs, message, batch>>

Init ==
    /\ testing \in BOOLEAN
    /\ pc = "members"
    /\ error = "none"
    /\ members_none = FALSE
    /\ members = <<>>
    /\ input = <<>>
    /\ members_failed = FALSE
    /\ conversation_history = <<>>
    /\ history_failed = FALSE
    /\ previous_pairs = None
    /\ members_previous_matches = <<>>
    /\ first_member = None
    /\ pairs = <<>>
    /\ message = None
    /\ posted = 0
    /\ response = "none"
    /\ post_result = None
    /\ log = <<>>
    /\ batch = <<>>

Next ==
    \/ GetMembersList
    \/ GetPreviousPairs
    \/ GenStart
    \/ GenStep
    \/ FormatMessage
    \/ PostMessage

Spec == Init /\ [][Next]_vars

-----------------------------------------------------------------------------
(* SpecGen: one call of generate_pairs *)

MaxMembers == 4
MaxHistoryPairs == 2

\* the names of the repository's test; Ava is in no member list
MemberPool == <<"Liam", "Olivia", "Noah", "Emma", "Sophia">>
HistoryPairs == {<<"Olivia", "Noah">>, <<"Olivia", "Ava">>, <<"Liam", "Liam">>}

\* Member lists of up to MaxMembers names, repeats allowed.  generate_pairs
\* shuffles the list before it reads it, so each multiset of names is handed
\* over in one order (that of MemberPool) and GenStart produces every other.
MemberLists ==
    {[i \in DOMAIN f |-> MemberPool[f[i]]] :
        f \in {g \in SeqsUpTo(DOMAIN MemberPool, MaxMembers) :
                  \A i \in 1..(Len(g) - 1) : g[i] <= g[i + 1]}}

\* Histories of up to MaxHistoryPairs pairs: None, no batch, one batch, and
\* the pairs cut into two batches at any place.
Histories ==
    {None, Some(<<>>)}
    \cup {Some(<<l>>) : l \in SeqsUpTo(HistoryPairs, MaxHistoryPairs)}
    \cup UNION {{Some(<<SubSeq(l, 1, c), SubSeq(l, c + 1, Len(l))>>) : c \in 0..Len(l)} :
                   l \in SeqsUpTo(HistoryPairs, MaxHistoryPairs)}

InitGen ==
    /\ testing = FALSE
    /\ pc = "generate"
    /\ error = "none"
    /\ members_none = FALSE
    /\ members \in MemberLists
    /\ input = <<>>
    /\ members_failed = FALSE
    /\ conversation_history = <<>>
    /\ history_failed = FALSE
    /\ previous_pairs \in Histories
    /\ members_previous_matches = <<>>
    /\ first_member = None
    /\ pairs = <<>>
    /\ message = None
    /\ posted = 0
    /\ response = "none"
    /\ post_result = None
    /\ log = <<>>
    /\ batch = <<>>

NextGen == GenStart \/ GenStep

SpecGen == InitGen /\ [][NextGen]_vars

-----------------------------------------------------------------------------
(* Properties of generate_pairs, checked under SpecGen *)

\* generate_pairs has returned
Returned == pc = "format"

PairedNames == UNION {{pairs[i][1], pairs[i][2]} : i \in DOMAIN pairs}

\* the number of sides of pairs that hold m
Occurrences(m) == Cardinality({<<i, k>> \in (DOMAIN pairs) \X {1, 2} : pairs[i][k] = m})

\* every identifier that shares a pair with m, on either side, in any batch
HistoricalMatchSet(m) ==
    IF previous_pairs = None
    THEN {}
    ELSE LET h == previous_pairs[1]
             ps == UNION {Range(h[b]) : b \in DOMAIN h}
         IN  {p[2] : p \in {q \in ps : q[1] = m}} \cup {p[1] : p \in {q \in ps : q[2] = m}}

HistoryNames ==
    IF previous_pairs = None
    THEN {}
    ELSE UNION {UNION {Range(previous_pairs[1][b][k]) : k \in DOMAIN previous_pairs[1][b]} :
                   b \in DOMAIN previous_pairs[1]}

\* C1: for a non-empty member list and any history, the identifiers in the
\* returned pairs are exactly the input members: none left out, none added.
C1_Coverage == Returned /\ input # <<>> => PairedNames = Range(input)

\* C1 on three members with a history that names an outsider
C1_Witness ==
    /\ Returned
    /\ Len(input) = 3
    /\ HistoryNames \ Range(input) # {}
    /\ PairedNames = Range(input)

\* C2: a non-empty list of n members yields exactly ceil(n/2) pairs.
C2_PairCount == Returned /\ input # <<>> => Len(pairs) = (Len(input) + 1) \div 2

\* C2 on an odd list with a history: three members, two pairs
C2_Witness == Returned /\ Len(input) = 3 /\ previous_pairs # None /\ Len(pairs) = 2

Distinct(ms) == Cardinality(Range(ms)) = Len(ms)

\* C3: for pairwise distinct members: n even, nobody appears twice; n odd and
\* above 1, exactly one member appears twice, in two pairs with two different
\* partners, everybody else once, and no pair holds one identifier twice;
\* n = 1, the one pair of the member with itself.
C3_Occurrences ==
    Returned /\ Distinct(input) =>
        /\ Len(input) % 2 = 0 => \A m \in Range(input) : Occurrences(m) <= 1
        /\ Len(input) % 2 = 1 /\ Len(input) > 1 =>
              /\ \E m \in Range(input) :
                    /\ Occurrences(m) = 2
                    /\ \A x \in Range(input) \ {m} : Occurrences(x) = 1
                    /\ \E i, j \in DOMAIN pairs :
                          /\ i # j
                          /\ m \in Range(pairs[i]) /\ m \in Range(pairs[j])
                          /\ Range(pairs[i]) # Range(pairs[j])
              /\ \A i \in DOMAIN pairs : pairs[i][1] # pairs[i][2]
        /\ Len(input) = 1 => pairs = <<<<input[1], input[1]>>>>

\* C3 on three distinct members: the floating member is in two pairs
C3_Witness ==
    /\ Returned
    /\ Len(input) = 3
    /\ Distinct(input)
    /\ first_member # None
    /\ Occurrences(first_member[1]) = 2

\* The pair made last, and the members that were unpaired when its second
\* side was chosen: those still unpaired now, and the one chosen.
LastPair == pairs[Len(pairs)]
UnpairedAtChoice == Range(members) \cup {LastPair[2]}

\* C4: a pair (M1, M2) with M2 a historical match of M1 is made only when
\* every member unpaired at that step was a historical match of M1; the pair
\* made with the floating member included.  Each pair is the last pair in
\* the state that follows its step.
C4_AvoidsHistory ==
    pairs # <<>> =>
        ((\E x \in UnpairedAtChoice : x \notin HistoricalMatchSet(LastPair[1]))
            => LastPair[2] \notin HistoricalMatchSet(LastPair[1]))

\* C4: an unpaired historical match was passed over for a member never met
C4_Witness ==
    /\ pairs # <<>>
    /\ \E x \in UnpairedAtChoice : x \in HistoricalMatchSet(LastPair[1])
    /\ LastPair[2] \notin HistoricalMatchSet(LastPair[1])

\* C6 as stated: when generate_pairs returns, the caller's list holds the
\* same elements in the same order as before the call, and no step changes
\* the history.
C6_Original ==
    [][(pc' = "format" => members' = input') /\ previous_pairs' = previous_pairs]_vars

\* C6 amended: when generate_pairs returns, the caller's list is empty (each
\* of its elements was popped or removed), and no step changes the history.
C6_ListConsumed ==
    [][(pc' = "format" => members' = <<>>) /\ previous_pairs' = previous_pairs]_vars

\* C6: a call on a non-empty list with a history has returned
C6_Witness == Returned /\ input # <<>> /\ members = <<>> /\ previous_pairs # None

\* C8: generate_pairs never raises, a state inside the call always has a next
\* step, an empty list gives the empty batch, and every iteration of the loop
\* takes at least one member out of the unpaired pool.
C8_Total ==
    /\ [](/\ pc # "raised"
          /\ pc \in {"generate", "loop"} => ENABLED NextGen
          /\ Returned /\ input = <<>> => pairs = <<>>)
    /\ [][pc = "loop" => Len(members') < Len(members)]_vars

\* C8: two members who already met were paired again by the fall-back
C8_Witness ==
    /\ Returned
    /\ Len(input) = 2
    /\ Len(pairs) = 1
    /\ pairs[1][1] # pairs[1][2]
    /\ pairs[1][2] \in HistoricalMatchSet(pairs[1][1])

-----------------------------------------------------------------------------
(* Properties of a run, checked under Spec *)

IsPrefix(a, b) == Len(a) <= Len(b) /\ SubSeq(b, 1, Len(a)) = a

\* the exceptions whose cause is what a collaborator answered, not a failure
\* of it: a channel list without the channel, a message without text, a
\* malformed announcement
AnswerErrors == {"UnboundLocalError", "KeyError", "IndexError"}

\* C7: a failure of a collaborator never propagates out of a run: a run in
\* which listing the members or listing the history failed does not end in an
\* exception (those of AnswerErrors apart), and when the member list could not
\* be obtained no message is posted.
C7_NoPropagation ==
    /\ (members_failed \/ history_failed) /\ pc = "raised" => error \in AnswerErrors
    /\ members_failed => posted = 0

\* C10: the steps of a run start in the order members, history, generate,
\* format, post; chat_postMessage is called at most once, with the formatted
\* batch, and in a finished run it was called exactly when the generated batch
\* is non-empty; a failed post gives False and ends the run without raising.
C10_Order ==
    /\ IsPrefix(log, <<"members", "history", "generate", "format", "post">>)
    /\ posted <= 1
    /\ pc = "done" => (posted = 1 <=> pairs # <<>>)
    /\ posted = 1 => pairs # <<>> /\ message = format_message_from_list_of_pairs(pairs)
    /\ response \in {"not_ok", "SlackApiError"} =>
          pc = "done" /\ posted = 1 /\ post_result = Some(FALSE) /\ error = "none"

\* C10: a run that went through all five steps and whose post failed
C10_Witness ==
    /\ pc = "done"
    /\ log = <<"members", "history", "generate", "format", "post">>
    /\ response = "SlackApiError"
    /\ post_result = Some(FALSE)
    /\ posted = 1

-----------------------------------------------------------------------------
(* SpecText: the formatter and the extractor on message texts *)

MaxBatchLen == 2
MaxLineTokens == 5

\* batches of one to MaxBatchLen pairs of identifiers in the rendering of the mode
TextBatches(t) == SeqsUpTo(Identifiers(t) \X Identifiers(t), MaxBatchLen) \ {<<>>}

\* the pieces a person's message is put together from (the second is EM SPACE)
LineTokens(t) ==
    {<<" ">>, <<"U+2003">>, <<"1">>, <<".", " ">>, <<" ", "a", "n", "d", " ">>, <<"\n">>,
     Render(USERS_LIST[1], t), Render(USERS_LIST[2], t)}

\* a message of a person: the marker phrase, then up to MaxLineTokens pieces
\* (one or more lines), then a last line
PersonMessages(t) ==
    {MAGICAL_TEXT \o <<":", "\n">> \o Join(body) \o <<"\n", "o", "k">> :
        body \in SeqsUpTo(LineTokens(t), MaxLineTokens)}

InitText ==
    /\ testing \in BOOLEAN
    /\ \/ /\ pc = "t_format"
          /\ batch \in TextBatches(testing)
          /\ conversation_history = <<>>
       \/ /\ pc = "t_extract"
          /\ batch = <<>>
          /\ conversation_history \in {<<[text |-> m]>> : m \in PersonMessages(testing)}
    /\ error = "none"
    /\ members_none = FALSE
    /\ members = <<>>
    /\ input = <<>>
    /\ members_failed = FALSE
    /\ history_failed = FALSE
    /\ previous_pairs = None
    /\ members_previous_matches = <<>>
    /\ first_member = None
    /\ pairs = <<>>
    /\ message = None
    /\ posted = 0
    /\ response = "none"
    /\ post_result = None
    /\ log = <<>>

\* the batch is formatted and the text becomes the only message of the channel
TextFormat ==
    /\ pc = "t_format"
    /\ message' = format_message_from_list_of_pairs(batch)
    /\ conversation_history' = IF message' = None THEN <<>> ELSE <<[text |-> message'[1]]>>
    /\ pc' = "t_extract"
    /\ UNCHANGED <<testing, error, members_none, members, input, members_failed,
                   history_failed, previous_pairs, members_previous_matches,
                   first_member, pairs, posted, response, post_result, log, batch>>

\* get_previous_pairs on the listed messages
TextExtract ==
    /\ pc = "t_extract"
    /\ LET r == ExtractPairs(conversation_history, testing)
       IN  /\ previous_pairs' = r.value
           /\ error' = r.error
           /\ pc' = IF r.error = "none" THEN "t_done" ELSE "raised"
    /\ UNCHANGED <<testing, members_none, members, input, members_failed,
                   conversation_history, history_failed, members_previous_matches,
                   first_member, pairs, message, posted, response, post_result, log,
                   batch>>

NextText == TextFormat \/ TextExtract

SpecText == InitText /\ [][NextText]_vars

-----------------------------------------------------------------------------
(* Properties of the text round trip, checked under SpecText *)

Extracted == pc \in {"t_done", "raised"}

\* C5: the text of a formatted non-empty batch, as the only message listed,
\* passes the filter and is extracted as exactly one batch holding the pairs
\* that were formatted.
C5_RoundTrip ==
    Extracted /\ batch # <<>> =>
        /\ Len(FilterTexts(conversation_history, testing)) = 1
        /\ pc = "t_done"
        /\ previous_pairs = Some(<<batch>>)

IsDigit(c) == c \in Range(Digits)
NoWhitespace(w) == \A i \in DOMAIN w : w[i] \notin Whitespace

\* the places i of '. ' and j of ' and ' that make e the line
\* '<index>. <member1> and <member2>': blanks and then digits before i, and two
\* non-empty members without blanks
LineForm(e, i, j) ==
    /\ i + 1 < j /\ j + 4 < Len(e)
    /\ SubSeq(e, i, i + 1) = <<".", " ">>
    /\ SubSeq(e, j, j + 4) = <<" ", "a", "n", "d", " ">>
    /\ \E d \in 1..(i - 1) :
          /\ \A k \in 1..(d - 1) : e[k] = " "
          /\ \A k \in d..(i - 1) : IsDigit(e[k])
    /\ NoWhitespace(SubSeq(e, i + 2, j - 1))
    /\ NoWhitespace(SubSeq(e, j + 5, Len(e)))

WellFormedLine(e) == \E i, j \in DOMAIN e : LineForm(e, i, j)

\* the two members as the author of a well-formed line wrote them
WrittenPair(e) ==
    LET ij == CHOOSE ij \in (DOMAIN e) \X (DOMAIN e) : LineForm(e, ij[1], ij[2])
    IN  <<SubSeq(e, ij[1] + 2, ij[2] - 1), SubSeq(e, ij[2] + 5, Len(e))>>

\* C9: for a message that passes the filter, a line between the first and the
\* last that is not of the form '<index>. <member1> and <member2>' makes the
\* extraction raise, and a pair that is returned holds the two members as the
\* author of its line wrote them.
C9_MalformedRaises ==
    Extracted /\ Len(FilterTexts(conversation_history, testing)) = 1 =>
        LET lines == PairLines(conversation_history[1].text)
        IN  /\ (\E k \in DOMAIN lines : ~WellFormedLine(lines[k])) => pc = "raised"
            /\ pc = "t_done" =>
                  \A k \in DOMAIN lines :
                      WellFormedLine(lines[k]) =>
                          previous_pairs[1][1][k] = WrittenPair(lines[k])

=============================================================================
